---- MODULE Spec2Model ----
(***************************************************************************)
(* Model of the sentinel / maintenance optimisation pipeline:              *)
(*   src/src/data_loader.py      load_graph                                *)
(*   src/src/models/sentinel.py  solve_sentinel_ip, solve_sentinel_greedy  *)
(*   src/run_pipeline.py         solve_sentinel_naive                      *)
(*   src/src/models/maintenance.py  solve_maintenance_ip                   *)
(*                                                                         *)
(* Numbers.  talent_score is a mean of integer ratings; it is kept exactly *)
(* as an integer multiple of 1/Scale, Scale being a common multiple of     *)
(* every possible count of ratings.  Edge weights are kept doubled (the    *)
(* average of two integers is a multiple of 1/2).  The knapsack value      *)
(* ln(t+1) * talent * sqrt(degree) is kept in fixed point (LnC and SqrtC   *)
(* are the floors of 100*ln and 100*sqrt).  Elapsed run times are not      *)
(* modelled.                                                               *)
(***************************************************************************)
EXTENDS Integers, Sequences, FiniteSets, TLC

\* ------------------------------------------------------------------ bounds
MaxRecords == 3
MaxK == 2
MaxRuns == 2

\* ------------------------------------------------------- program constants
SEED == 42
MIN_STALENESS == 30
DEFAULT_DAYS == 730
SECONDS_PER_DAY == 86400
GREEDY_START_GAIN == -1

\* ------------------------------------------------------------ input domain
\* Lines of the data file (SOURCE,TARGET,RATING,TIME) the input is drawn from:
\* both directions of a pair, a repeated ordered pair, negative ratings, a
\* self-rating, and two times 40 days apart.
LateTime == 40 * SECONDS_PER_DAY + 44000
RawRecords ==
  {[u |-> 1, v |-> 2, rating |-> 10, timestamp |-> 0],
   [u |-> 2, v |-> 1, rating |-> 4, timestamp |-> 0],
   [u |-> 1, v |-> 3, rating |-> -10, timestamp |-> 0],
   [u |-> 2, v |-> 3, rating |-> -10, timestamp |-> 0],
   [u |-> 3, v |-> 3, rating |-> 10, timestamp |-> LateTime],
   [u |-> 1, v |-> 2, rating |-> -10, timestamp |-> LateTime]}
\* A line of the file after line.strip().split(','): its fields, each either
\* text that int() accepts (with its value) or text on which int() raises
\* ValueError.
Field(n) == [int |-> TRUE, val |-> n]
NotAnInt == [int |-> FALSE, val |-> 0]
LineOf(rec) == <<Field(rec.u), Field(rec.v), Field(rec.rating), Field(rec.timestamp)>>
\* Lines a file with malformed lines is drawn from: two records, a line with
\* a fifth field, a line of three fields, a blank line (one empty field), and
\* a line of four fields whose rating is not an integer.
FileLines ==
  {LineOf([u |-> 1, v |-> 2, rating |-> 10, timestamp |-> 0]),
   LineOf([u |-> 2, v |-> 1, rating |-> 4, timestamp |-> 0]),
   <<Field(2), Field(3), Field(10), Field(LateTime), Field(7)>>,
   <<Field(1), Field(2), Field(10)>>,
   <<NotAnInt>>,
   <<Field(1), Field(3), NotAnInt, Field(0)>>}
\* time budgets T handed to solve_maintenance_ip
Budgets == {0, 100, 2800}

RECURSIVE SeqsUpTo(_, _)
SeqsUpTo(S, n) ==
  IF n = 0 THEN {<<>>}
  ELSE LET shorter == SeqsUpTo(S, n - 1)
       IN shorter \cup {Append(s, x) : s \in {q \in shorter : Len(q) = n - 1}, x \in S}

\* ---------------------------------------------------------------- helpers
Max2(a, b) == IF a >= b THEN a ELSE b

RECURSIVE Gcd(_, _)
Gcd(a, b) == IF b = 0 THEN a ELSE Gcd(b, a % b)

RECURSIVE LcmUpTo(_)
LcmUpTo(n) == IF n <= 1 THEN 1 ELSE LET l == LcmUpTo(n - 1) IN (l * n) \div Gcd(l, n)

\* talent scores are stored multiplied by Scale
Scale == LcmUpTo(MaxRecords)

RECURSIVE SumOver(_, _)
\* sum of f[x] over the finite set S
SumOver(f, S) ==
  IF S = {} THEN 0
  ELSE LET x == CHOOSE y \in S : TRUE IN f[x] + SumOver(f, S \ {x})

RECURSIVE MaxOfSeq(_)
MaxOfSeq(s) == IF Len(s) = 1 THEN s[1] ELSE Max2(s[1], MaxOfSeq(Tail(s)))

InSeq(x, s) == \E i \in 1..Len(s) : s[i] = x
SeqToSet(s) == {s[i] : i \in 1..Len(s)}
AppendNew(s, x) == IF InSeq(x, s) THEN s ELSE Append(s, x)

SortedPair(u, v) == IF u <= v THEN <<u, v>> ELSE <<v, u>>

\* ------------------------------------------------- load_graph: directed pass
\* nx.DiGraph: nodes in order of first appearance, successors of a node in
\* order of first appearance, one attribute record per ordered pair
\* (add_edge on an existing pair overwrites its attributes).
EmptyDG == [nodes |-> <<>>, succ |-> <<>>, attr |-> <<>>]

DGAddEdge(DG, rec) ==
  LET nodes1 == AppendNew(AppendNew(DG.nodes, rec.u), rec.v)
      old == IF rec.u \in DOMAIN DG.succ THEN DG.succ[rec.u] ELSE <<>>
      succ1 == [n \in SeqToSet(nodes1) |->
                  IF n = rec.u THEN AppendNew(old, rec.v)
                  ELSE IF n \in DOMAIN DG.succ THEN DG.succ[n] ELSE <<>>]
      key == <<rec.u, rec.v>>
      attr1 == [e \in DOMAIN DG.attr \cup {key} |->
                  IF e = key THEN [weight |-> rec.rating, timestamp |-> rec.timestamp]
                  ELSE DG.attr[e]]
  IN [nodes |-> nodes1, succ |-> succ1, attr |-> attr1]

RECURSIVE ReadLines(_, _)
\* the read loop over ls[1..n]: raw_edges so far, and whether an int() call
\* raised ValueError (only FileNotFoundError is caught, so the loop and
\* load_graph end there)
ReadLines(ls, n) ==
  IF n = 0 THEN [raised |-> FALSE, raw_edges |-> <<>>]
  ELSE LET prev == ReadLines(ls, n - 1)
           parts == ls[n]
       IN IF prev.raised THEN prev
          ELSE IF Len(parts) >= 4
          THEN IF \A i \in 1..4 : parts[i].int
               THEN [raised |-> FALSE,
                     raw_edges |-> Append(prev.raw_edges,
                                     [u |-> parts[1].val, v |-> parts[2].val,
                                      rating |-> parts[3].val,
                                      timestamp |-> parts[4].val])]
               ELSE [raised |-> TRUE, raw_edges |-> prev.raw_edges]
          ELSE prev

RECURSIVE ParseData(_, _)
\* the read loop: DG after the lines rawSeq[1..n]
ParseData(rawSeq, n) ==
  IF n = 0 THEN EmptyDG ELSE DGAddEdge(ParseData(rawSeq, n - 1), rawSeq[n])

RECURSIVE DGEdgesFrom(_, _, _)
DGEdgesFrom(DG, i, j) ==
  \* DG.edges(): for each node in node order, each successor in its order
  IF i > Len(DG.nodes) THEN <<>>
  ELSE IF j > Len(DG.succ[DG.nodes[i]]) THEN DGEdgesFrom(DG, i + 1, 1)
  ELSE <<(<<DG.nodes[i], DG.succ[DG.nodes[i]][j]>>)>> \o DGEdgesFrom(DG, i, j + 1)

DGEdges(DG) == DGEdgesFrom(DG, 1, 1)
DGHasEdge(DG, u, v) == <<u, v>> \in DOMAIN DG.attr

\* ---------------------------------------------- load_graph: undirected pass
\* variant: the two ratings summed, not averaged
CombineWeight2Sum(hasUV, wUV, hasVU, wVU) ==
  IF hasUV /\ hasVU THEN 2 * (wUV + wVU)
  ELSE IF hasUV THEN 2 * wUV ELSE 2 * wVU

\* weight2 is twice the edge weight
CombineWeight2(hasUV, wUV, hasVU, wVU) ==
  IF hasUV /\ hasVU THEN wUV + wVU
  ELSE IF hasUV THEN 2 * wUV ELSE 2 * wVU

CombineTimestamp(tsUV, tsVU) == Max2(tsUV, tsVU)

CombinedEdge(DG, u, v) ==
  LET hasUV == DGHasEdge(DG, u, v)
      hasVU == DGHasEdge(DG, v, u)
      wUV == IF hasUV THEN DG.attr[<<u, v>>].weight ELSE 0
      wVU == IF hasVU THEN DG.attr[<<v, u>>].weight ELSE 0
      tsUV == IF hasUV THEN DG.attr[<<u, v>>].timestamp ELSE 0
      tsVU == IF hasVU THEN DG.attr[<<v, u>>].timestamp ELSE 0
  IN [weight2 |-> CombineWeight2(hasUV, wUV, hasVU, wVU),
      timestamp |-> CombineTimestamp(tsUV, tsVU)]

RECURSIVE CollapseEdges(_, _, _, _)
\* the loop over DG.edges(data=True) with processed_pairs; edges maps a
\* sorted pair to its attributes
CollapseEdges(DG, es, i, edges) ==
  IF i > Len(es) THEN edges
  ELSE LET u == es[i][1]
           v == es[i][2]
           pair == SortedPair(u, v)
       IN IF pair \in DOMAIN edges THEN CollapseEdges(DG, es, i + 1, edges)
          ELSE CollapseEdges(DG, es, i + 1,
                 [e \in DOMAIN edges \cup {pair} |->
                    IF e = pair THEN CombinedEdge(DG, u, v) ELSE edges[e]])

\* ---------------------------------------------------- graph queries (nx.Graph)
Neighbors(Gr, n) ==
  {m \in SeqToSet(Gr.nodes) : SortedPair(n, m) \in DOMAIN Gr.edges}

\* nx degree: a self-loop counts twice
Degree(Gr, n) ==
  Cardinality(Neighbors(Gr, n)) + (IF <<n, n>> \in DOMAIN Gr.edges THEN 1 ELSE 0)

NodeAttr(Gr, attrName, n, default) ==
  IF n \in DOMAIN Gr[attrName] THEN Gr[attrName][n] ELSE default

\* ------------------------------------------------ load_graph: node attributes
\* variant: ratings read from the directed graph, where a repeated ordered
\* pair keeps only its last record
RatingsReceivedCollapsed(rawSeq, node) ==
  LET idx == {i \in 1..Len(rawSeq) :
                /\ rawSeq[i].v = node
                /\ \A j \in (i + 1)..Len(rawSeq) :
                      ~(rawSeq[j].u = rawSeq[i].u /\ rawSeq[j].v = node)}
  IN [count |-> Cardinality(idx),
      total |-> SumOver([i \in 1..Len(rawSeq) |-> rawSeq[i].rating], idx)]

RatingsReceived(rawSeq, node) ==
  \* node_ratings[node]: ratings of every raw record whose target is node
  LET idx == {i \in 1..Len(rawSeq) : rawSeq[i].v = node}
  IN [count |-> Cardinality(idx),
      total |-> SumOver([i \in 1..Len(rawSeq) |-> rawSeq[i].rating], idx)]

TalentScore(rawSeq, node) ==
  LET r == RatingsReceived(rawSeq, node)
  IN IF r.count > 0 THEN (r.total * Scale) \div r.count ELSE 0

MaxTime(rawSeq) == MaxOfSeq([i \in 1..Len(rawSeq) |-> rawSeq[i].timestamp])

\* variant: the day count is not raised to 1
DaysAgoUnfloored(rawSeq, node) ==
  LET ts == {rawSeq[i].timestamp :
               i \in {j \in 1..Len(rawSeq) : rawSeq[j].u = node \/ rawSeq[j].v = node}}
  IN IF ts # {}
     THEN LET last_ts == CHOOSE t \in ts : \A t2 \in ts : t2 <= t
              diff_seconds == MaxTime(rawSeq) - last_ts
          IN diff_seconds \div SECONDS_PER_DAY
     ELSE DEFAULT_DAYS

\* last_contacted of a node: whole days between max_time and the latest
\* record with the node as source or target, at least 1
DaysAgo(rawSeq, node) ==
  LET ts == {rawSeq[i].timestamp :
               i \in {j \in 1..Len(rawSeq) : rawSeq[j].u = node \/ rawSeq[j].v = node}}
  IN IF ts # {}
     THEN LET last_ts == CHOOSE t \in ts : \A t2 \in ts : t2 <= t
              diff_seconds == MaxTime(rawSeq) - last_ts
          IN Max2(1, diff_seconds \div SECONDS_PER_DAY)
     ELSE DEFAULT_DAYS

\* The process-wide generator behind random.seed / random.randint.  Its state
\* is the seed it was last seeded with and the number of draws since; the
\* values are the first draws of random.randint(15, 120) of CPython's
\* generator after random.seed(42), and after random.seed(0) for the state
\* the process starts in (any state other than a fresh SEED would do).
RandIntStream(seed) ==
  IF seed = SEED
  THEN <<96, 29, 18, 109, 50, 46, 43, 32, 109, 28, 101, 109, 84, 26, 90, 69>>
  ELSE <<64, 112, 68, 20, 48, 80, 77, 66, 115, 53, 76, 60, 89, 42, 79, 32>>
RandomSeed(seed) == [seed |-> seed, pos |-> 0]
\* the state after one more draw (the table is read cyclically), and the
\* value that draw returned
RandomNext(state) == [state EXCEPT !.pos = (state.pos % 16) + 1]
RandIntOf(state) == RandIntStream(state.seed)[state.pos]

RECURSIVE DrawCosts(_, _, _)
\* maintenance_cost of nodes[1..n], drawn in node order; returns the costs
\* and the generator state afterwards
DrawCosts(nodes, n, state0) ==
  IF n = 0 THEN [cost |-> <<>>, state |-> state0]
  ELSE LET prev == DrawCosts(nodes, n - 1, state0)
           s1 == RandomNext(prev.state)
       IN [cost |-> Append(prev.cost, RandIntOf(s1)),
           state |-> s1]

\* variant: the generator is left in the state the process has it in
SeedForRunKeep(state) == state

\* The generator state load_graph draws from: re-seeded at every call.
SeedForRun(state) == RandomSeed(SEED)

LoadGraphResult(rawSeq, rngState) ==
  LET DG == ParseData(rawSeq, Len(rawSeq))
      edges == CollapseEdges(DG, DGEdges(DG), 1, <<>>)
      nodes == DG.nodes
      nodeSet == SeqToSet(nodes)
  IN IF rawSeq = <<>>
     THEN [graph |-> [nodes |-> nodes, edges |-> edges, talent_score |-> <<>>,
                      last_contacted |-> <<>>, maintenance_cost |-> <<>>],
           rng |-> rngState]
     ELSE LET drawn == DrawCosts(nodes, Len(nodes), SeedForRun(rngState))
          IN [graph |->
                [nodes |-> nodes,
                 edges |-> edges,
                 talent_score |-> [n \in nodeSet |-> TalentScore(rawSeq, n)],
                 last_contacted |-> [n \in nodeSet |-> DaysAgo(rawSeq, n)],
                 maintenance_cost |->
                   [n \in nodeSet |->
                      drawn.cost[CHOOSE i \in 1..Len(nodes) : nodes[i] = n]]],
              rng |-> drawn.state]

NoGraph == [nodes |-> <<>>, edges |-> <<>>, talent_score |-> <<>>,
            last_contacted |-> <<>>, maintenance_cost |-> <<>>]

\* variant: a selector that consumes the scores it has read
GraphAfterSelectorCleared(Gr) ==
  [Gr EXCEPT !.talent_score = [n \in DOMAIN Gr.talent_score |-> 0]]

\* The graph object after a selector has returned.  The selectors reach G
\* through G.nodes(), G.degree(), G.neighbors(), nx.get_node_attributes() and
\* data.get() only, and collect what they compute in objects of their own
\* (lists, sets copied with set(), gurobi models).
GraphAfterSelector(Gr) == Gr

\* ------------------------------------------------------- solve_sentinel_ip
\* candidates = talents = nodes of positive degree, in G.nodes() order
Candidates(Gr) == SelectSeq(Gr.nodes, LAMBDA n : Degree(Gr, n) > 0)
Talents(Gr) == SelectSeq(Gr.nodes, LAMBDA n : Degree(Gr, n) > 0)

Knowers(Gr, j) == {i \in Neighbors(Gr, j) : i \in SeqToSet(Candidates(Gr))}

\* y[j] == 0 when j has no knower, else y[j] <= sum of x[i] over its knowers;
\* knowers maps each talent to its knowers
CoverConstraint(knowers, x, y) ==
  \A j \in DOMAIN knowers :
     IF knowers[j] = {} THEN j \notin y
     ELSE (j \in y) => (knowers[j] \cap x # {})

\* variants of the budget constraint: strictly fewer than K, exactly K
BudgetConstraintStrict(x, kk) == Cardinality(x) < kk
BudgetConstraintExactly(x, kk) == Cardinality(x) = kk

\* sum of x[i] <= K
BudgetConstraint(x, kk) == Cardinality(x) <= kk

\* the 0/1 assignments satisfying every constraint: x and y are the sets of
\* variables at 1
FeasibleAssignments(Gr, kk) ==
  LET knowers == [j \in SeqToSet(Talents(Gr)) |-> Knowers(Gr, j)]
  IN {a \in [x : SUBSET SeqToSet(Candidates(Gr)), y : SUBSET SeqToSet(Talents(Gr))] :
        BudgetConstraint(a.x, kk) /\ CoverConstraint(knowers, a.x, a.y)}

\* sum of weights[j] * y[j]
Objective(Gr, a) == SumOver(Gr.talent_score, a.y)

\* the feasible assignments of maximal objective
OptimalAssignments(Gr, kk) ==
  LET F == FeasibleAssignments(Gr, kk)
      obj == [a \in F |-> Objective(Gr, a)]
      best == CHOOSE v \in {obj[a] : a \in F} : \A a \in F : obj[a] <= v
  IN {a \in F : obj[a] = best}

\* what is returned for a solution: the selected candidates and model.ObjVal
SentinelReturn(Gr, a) == [selected |-> a.x, coverage |-> Objective(Gr, a)]

\* what is returned when the status is neither OPTIMAL nor TIME_LIMIT
FailedReturn == [selected |-> {}, coverage |-> 0]

\* --------------------------------------------------- solve_sentinel_greedy
NoCandidate == 0

\* variant: the gain counts the neighbours already covered too
MarginalGainAllNeighbors(Gr, candidate, covered) ==
  LET new_talents == Neighbors(Gr, candidate)
  IN SumOver([t \in new_talents |-> NodeAttr(Gr, "talent_score", t, 0)], new_talents)

\* sum of weights.get(t, 0) over neighbors_map[candidate] - covered_talent
MarginalGain(Gr, candidate, covered) ==
  LET new_talents == Neighbors(Gr, candidate) \ covered
  IN SumOver([t \in new_talents |-> NodeAttr(Gr, "talent_score", t, 0)], new_talents)

BetterGain(gain, best) == gain > best

RECURSIVE BestFrom(_, _, _, _, _, _)
\* the inner loop over candidates[i..]: best is <<best_candidate, best_gain>>
BestFrom(Gr, cands, i, selected, covered, best) ==
  IF i > Len(cands) THEN best
  ELSE IF cands[i] \in selected THEN BestFrom(Gr, cands, i + 1, selected, covered, best)
  ELSE LET gain == MarginalGain(Gr, cands[i], covered)
       IN IF BetterGain(gain, best[2])
          THEN BestFrom(Gr, cands, i + 1, selected, covered, <<cands[i], gain>>)
          ELSE BestFrom(Gr, cands, i + 1, selected, covered, best)

BestCandidate(Gr, selected, covered) ==
  BestFrom(Gr, Candidates(Gr), 1, selected, covered,
           <<NoCandidate, GREEDY_START_GAIN * Scale>>)

\* variant: a best gain of zero is selected too
RoundSelectsNonNegative(best) == best[1] # NoCandidate /\ best[2] >= 0

\* best_candidate is not None and best_marginal_gain > 0
RoundSelects(best) == best[1] # NoCandidate /\ best[2] > 0

\* ---------------------------------------------------- solve_sentinel_naive
\* variant: equal degrees ordered by ascending id
RankByDegreeById(Gr, s, i) ==
  Cardinality({j \in 1..Len(s) :
     \/ Degree(Gr, s[j]) > Degree(Gr, s[i])
     \/ (Degree(Gr, s[j]) = Degree(Gr, s[i]) /\ s[j] < s[i])}) + 1

\* list.sort(key=degree, reverse=True) is stable: equal degrees keep the
\* order of G.nodes()
RankByDegree(Gr, s, i) ==
  Cardinality({j \in 1..Len(s) :
     \/ Degree(Gr, s[j]) > Degree(Gr, s[i])
     \/ (Degree(Gr, s[j]) = Degree(Gr, s[i]) /\ j < i)}) + 1

SortByDegreeDesc(Gr, s) ==
  [r \in 1..Len(s) |-> s[CHOOSE i \in 1..Len(s) : RankByDegree(Gr, s, i) = r]]

\* variant: a slice one element too long
TakeFirstOffByOne(s, n) == SubSeq(s, 1, IF n + 1 < Len(s) THEN n + 1 ELSE Len(s))

\* s[:n]
TakeFirst(s, n) == SubSeq(s, 1, IF n < Len(s) THEN n ELSE Len(s))

NaiveSelected(Gr, kk) ==
  TakeFirst(SortByDegreeDesc(Gr, SelectSeq(Gr.nodes, LAMBDA n : Degree(Gr, n) > 0)), kk)

CoveredBy(Gr, sel) == UNION {Neighbors(Gr, s) : s \in sel}

\* sum of weights.get(t, 0) over the covered set
CoverageOf(Gr, sel) ==
  LET covered == CoveredBy(Gr, sel)
  IN SumOver([t \in covered |-> NodeAttr(Gr, "talent_score", t, 0)], covered)

NaiveReturn(Gr, kk) ==
  LET selected == NaiveSelected(Gr, kk)
  IN [selected |-> selected, coverage |-> CoverageOf(Gr, SeqToSet(selected))]

\* ---------------------------------------------------- solve_maintenance_ip
RECURSIVE Log2Frac(_, _, _)
\* fractional bits of log2 of x / 2^14 (1 <= x / 2^14 < 2), by repeated
\* squaring; the result is in units of 2^-10
Log2Frac(x, bit, acc) ==
  IF bit > 10 THEN acc
  ELSE LET sq == (x * x) \div 16384
       IN IF sq >= 32768
          THEN Log2Frac(sq \div 2, bit + 1, 2 * acc + 1)
          ELSE Log2Frac(sq, bit + 1, 2 * acc)

RECURSIVE FloorLog2(_)
FloorLog2(n) == IF n < 2 THEN 0 ELSE 1 + FloorLog2(n \div 2)

RECURSIVE Pow2(_)
Pow2(n) == IF n = 0 THEN 1 ELSE 2 * Pow2(n - 1)

\* math.log(n) in hundredths, for 1 <= n < 2^16
LnC(n) ==
  LET e == FloorLog2(n)
      mant == (n * 16384) \div Pow2(e)
      log2milli == e * 1024 + Log2Frac(mant, 1, 0)
  IN (log2milli * 6931) \div 102400

RECURSIVE IsqrtFrom(_, _)
IsqrtFrom(n, r) == IF (r + 1) * (r + 1) > n THEN r ELSE IsqrtFrom(n, r + 1)

\* math.sqrt(d) in hundredths
SqrtC(d) == IsqrtFrom(10000 * d, 100 * IsqrtFrom(d, 0))

calculate_urgency(time_since_contact) == LnC(time_since_contact + 1)

\* variant: the reputation is not looked at
EligibleAnyScore(Gr, n, min_staleness) ==
  /\ NodeAttr(Gr, "last_contacted", n, 0) > min_staleness
  /\ Degree(Gr, n) > 0

\* t_i > min_staleness, then degree > 0 and talent_score > 0
Eligible(Gr, n, min_staleness) ==
  /\ NodeAttr(Gr, "last_contacted", n, 0) > min_staleness
  /\ Degree(Gr, n) > 0
  /\ NodeAttr(Gr, "talent_score", n, 0) > 0

CandidateRecord(Gr, n) ==
  LET t_i == NodeAttr(Gr, "last_contacted", n, 0)
      talent == NodeAttr(Gr, "talent_score", n, 0)
      degree == Degree(Gr, n)
  IN [id |-> n,
      weight |-> NodeAttr(Gr, "maintenance_cost", n, 0),
      value |-> calculate_urgency(t_i) * (talent * SqrtC(degree)),
      days_dormant |-> t_i,
      degree |-> degree,
      talent_score |-> talent]

\* the candidates list, in G.nodes() order
MaintenanceCandidates(Gr, min_staleness) ==
  LET ids == SelectSeq(Gr.nodes, LAMBDA n : Eligible(Gr, n, min_staleness))
  IN [i \in 1..Len(ids) |-> CandidateRecord(Gr, ids[i])]

TotalWeight(cands, xs) == SumOver([i \in xs |-> cands[i].weight], xs)
TotalValue(cands, xs) == SumOver([i \in xs |-> cands[i].value], xs)

\* variant: the budget bounds the number of selected candidates
WithinBudgetByCount(cands, xs, time_budget) == Cardinality(xs) <= time_budget

\* sum of weight * x[i] <= T
WithinBudget(cands, xs, time_budget) == TotalWeight(cands, xs) <= time_budget

KnapsackFeasible(cands, time_budget) ==
  {xs \in SUBSET (1..Len(cands)) : WithinBudget(cands, xs, time_budget)}

KnapsackOptimal(cands, time_budget) ==
  LET F == KnapsackFeasible(cands, time_budget)
      val == [xs \in F |-> TotalValue(cands, xs)]
      best == CHOOSE v \in {val[xs] : xs \in F} : \A xs \in F : val[xs] <= v
  IN {xs \in F : val[xs] = best}

\* selected_nodes (the candidate records at 1) and recovered_value
MaintenanceReturn(cands, xs) ==
  [selected |-> {cands[i] : i \in xs}, value |-> TotalValue(cands, xs)]

\* ------------------------------------------------------------------ state
NoResult == [done |-> FALSE, coverage |-> 0]
NoCall == [k |-> -1, selected |-> {}, coverage |-> 0]
NoNaive == [done |-> FALSE, selected |-> <<>>, coverage |-> 0]
NoGreedy == [done |-> FALSE, selected |-> {}, coverage |-> 0, order |-> <<>>]
NoMaint == [done |-> FALSE, budget |-> 0, selected |-> {}, value |-> 0]

VARIABLES
  lines,               \* the lines of the data file
  raw,                 \* the records of its well-formed lines
  pc,                  \* the pipeline's position: load, then the greedy and the
                       \* naive solver for K = 0..MaxK, then the exact solver
                       \* for K = 0..MaxK, then the maintenance solver
  rng,                 \* state of the process-wide random generator
  G,                   \* the graph load_graph returned
  k,                   \* the budget of the next sentinel call
  ipRes, ipStatus,     \* per budget: the coverage solve_sentinel_ip returned, model.status
  ipLast,              \* the latest call of solve_sentinel_ip: its budget and what it returned
  selected_sentinels, covered_talent, current_score, rounds, order,
                       \* locals of solve_sentinel_greedy (order: the picks as logged)
  greedyRes,           \* per budget: what solve_sentinel_greedy returned
  naiveRes,            \* per budget: what solve_sentinel_naive returned
  maintRes, maintStatus, \* what solve_maintenance_ip returned, model.status
  run,                 \* number of the current run of the pipeline in this process
  first                \* maintenance costs and greedy results of the previous run

greedyLocals == <<selected_sentinels, covered_talent, current_score, rounds, order>>
vars == <<lines, raw, pc, rng, G, k, ipRes, ipStatus, ipLast, selected_sentinels, covered_talent,
          current_score, rounds, order, greedyRes, naiveRes, maintRes, maintStatus,
          run, first>>

\* a line with at least four fields of which the first four are integers
WellFormed(line) == Len(line) >= 4 /\ \A i \in 1..4 : line[i].int
WellFormedRecords(ls) ==
  LET wf == SelectSeq(ls, WellFormed)
  IN [i \in 1..Len(wf) |->
        [u |-> wf[i][1].val, v |-> wf[i][2].val, rating |-> wf[i][3].val,
         timestamp |-> wf[i][4].val]]

\* the process before load_graph is called
InitProcess ==
  /\ pc = "load"
  /\ rng = RandomSeed(0)
  /\ G = NoGraph
  /\ k = 0
  /\ ipRes = [kk \in 0..MaxK |-> NoResult]
  /\ ipStatus = [kk \in 0..MaxK |-> "NONE"]
  /\ ipLast = NoCall
  /\ selected_sentinels = {}
  /\ covered_talent = {}
  /\ current_score = 0
  /\ rounds = 0
  /\ order = <<>>
  /\ greedyRes = [kk \in 0..MaxK |-> NoGreedy]
  /\ naiveRes = [kk \in 0..MaxK |-> NoNaive]
  /\ maintRes = NoMaint
  /\ maintStatus = "NONE"
  /\ run = 1
  /\ first = [cost |-> <<>>, greedy |-> [kk \in 0..MaxK |-> NoGreedy]]

\* a data file of well-formed lines
Init ==
  /\ raw \in SeqsUpTo(RawRecords, MaxRecords)
  /\ lines = [i \in 1..Len(raw) |-> LineOf(raw[i])]
  /\ InitProcess

\* a data file that may hold malformed lines
InitMalformed ==
  /\ lines \in SeqsUpTo(FileLines, MaxRecords)
  /\ raw = WellFormedRecords(lines)
  /\ InitProcess

\* load_graph returns the graph
LoadGraph ==
  /\ pc = "load"
  /\ LET read == ReadLines(lines, Len(lines))
     IN /\ ~read.raised
        /\ LET res == LoadGraphResult(read.raw_edges, rng)
           IN /\ G' = res.graph
              /\ rng' = res.rng
  /\ pc' = "greedy"
  /\ UNCHANGED <<lines, raw, k, ipRes, ipStatus, ipLast, greedyLocals, greedyRes, naiveRes,
                 maintRes, maintStatus, run, first>>

\* load_graph ends with the ValueError of an int() call; run_full_pipeline
\* does not catch it
LoadGraphRaises ==
  /\ pc = "load"
  /\ ReadLines(lines, Len(lines)).raised
  /\ pc' = "raised"
  /\ UNCHANGED <<lines, raw, rng, G, k, ipRes, ipStatus, ipLast, greedyLocals,
                 greedyRes, naiveRes, maintRes, maintStatus, run, first>>

\* the locals of solve_sentinel_greedy as a call initialises them
ResetGreedyLocals ==
  /\ selected_sentinels' = {}
  /\ covered_talent' = {}
  /\ current_score' = 0
  /\ rounds' = 0
  /\ order' = <<>>

\* what a call with budget k that returned ret leaves behind; the budgets
\* are swept upwards
RecordSentinelIP(ret, status) ==
  /\ ipRes' = [ipRes EXCEPT ![k] = [done |-> TRUE, coverage |-> ret.coverage]]
  /\ ipLast' = [k |-> k] @@ ret
  /\ ipStatus' = [ipStatus EXCEPT ![k] = status]
  /\ IF k < MaxK
     THEN k' = k + 1 /\ pc' = "ip"
     ELSE k' = k /\ pc' = "maint"

\* model.optimize() proves optimality (status OPTIMAL), or finds the program
\* infeasible and the function takes its else branch
SolveSentinelIP ==
  /\ pc = "ip"
  /\ LET opt == OptimalAssignments(G, k)
     IN IF opt = {}
        THEN RecordSentinelIP(FailedReturn, "INFEASIBLE")
        ELSE \E a \in opt : RecordSentinelIP(SentinelReturn(G, a), "OPTIMAL")
  /\ G' = GraphAfterSelector(G)
  /\ UNCHANGED <<lines, raw, rng, greedyLocals, greedyRes, naiveRes, maintRes,
                 maintStatus, run, first>>

\* model.optimize() stops at Params.TimeLimit with some feasible incumbent
\* (on a program that leaves something to search, at most once in a run)
SolveSentinelIPTimeLimit ==
  /\ pc = "ip"
  /\ k > 0
  /\ Candidates(G) # <<>>
  /\ \A kk \in 0..MaxK : ipStatus[kk] # "TIME_LIMIT"
  /\ \E a \in FeasibleAssignments(G, k) :
        RecordSentinelIP(SentinelReturn(G, a), "TIME_LIMIT")
  /\ G' = GraphAfterSelector(G)
  /\ UNCHANGED <<lines, raw, rng, greedyLocals, greedyRes, naiveRes, maintRes,
                 maintStatus, run, first>>

\* one iteration of `for _ in range(k)` that selects a candidate
GreedyRound ==
  /\ pc = "greedy"
  /\ rounds < k
  /\ LET best == BestCandidate(G, selected_sentinels, covered_talent)
     IN /\ RoundSelects(best)
        /\ selected_sentinels' = selected_sentinels \cup {best[1]}
        /\ covered_talent' = covered_talent \cup Neighbors(G, best[1])
        /\ current_score' = current_score + best[2]
        /\ order' = Append(order, best[1])
  /\ rounds' = rounds + 1
  /\ UNCHANGED <<lines, raw, pc, rng, G, k, ipRes, ipStatus, ipLast, greedyRes, naiveRes,
                 maintRes, maintStatus, run, first>>

\* the loop ends (k iterations done, or the break) and the function returns;
\* its locals are gone
GreedyReturn ==
  /\ pc = "greedy"
  /\ \/ rounds >= k
     \/ ~RoundSelects(BestCandidate(G, selected_sentinels, covered_talent))
  /\ greedyRes' = [greedyRes EXCEPT ![k] =
                     [done |-> TRUE, selected |-> selected_sentinels,
                      coverage |-> current_score, order |-> order]]
  /\ pc' = "naive"
  /\ ResetGreedyLocals
  /\ G' = GraphAfterSelector(G)
  /\ UNCHANGED <<lines, raw, rng, k, ipRes, ipStatus, ipLast, naiveRes,
                 maintRes, maintStatus, run, first>>

SolveSentinelNaive ==
  /\ pc = "naive"
  /\ naiveRes' = [naiveRes EXCEPT ![k] = [done |-> TRUE] @@ NaiveReturn(G, k)]
  /\ IF k < MaxK
     THEN k' = k + 1 /\ pc' = "greedy"
     ELSE k' = 0 /\ pc' = "ip"
  /\ G' = GraphAfterSelector(G)
  /\ UNCHANGED <<lines, raw, rng, ipRes, ipStatus, ipLast, greedyLocals, greedyRes,
                 maintRes, maintStatus, run, first>>

\* model.optimize() ends with status OPTIMAL
SolveMaintenanceIP ==
  /\ pc = "maint"
  /\ \E time_budget \in Budgets :
       LET cands == MaintenanceCandidates(G, MIN_STALENESS)
       IN \E xs \in KnapsackOptimal(cands, time_budget) :
            maintRes' = [done |-> TRUE, budget |-> time_budget]
                          @@ MaintenanceReturn(cands, xs)
  /\ maintStatus' = "OPTIMAL"
  /\ pc' = "done"
  /\ G' = GraphAfterSelector(G)
  /\ UNCHANGED <<lines, raw, rng, k, ipRes, ipStatus, ipLast, greedyLocals, greedyRes,
                 naiveRes, run, first>>

\* model.optimize() ends with a status other than OPTIMAL (on a program with
\* at least one variable): nothing is selected
SolveMaintenanceNotOptimal ==
  /\ pc = "maint"
  /\ MaintenanceCandidates(G, MIN_STALENESS) # <<>>
  /\ \E time_budget \in Budgets :
       maintRes' = [done |-> TRUE, budget |-> time_budget, selected |-> {}, value |-> 0]
  /\ maintStatus' = "NOT_OPTIMAL"
  /\ pc' = "done"
  /\ G' = GraphAfterSelector(G)
  /\ UNCHANGED <<lines, raw, rng, k, ipRes, ipStatus, ipLast, greedyLocals, greedyRes,
                 naiveRes, run, first>>

\* the pipeline is run again in the same process on the same data file
Rerun ==
  /\ pc = "done"
  /\ run < MaxRuns
  /\ run' = run + 1
  /\ first' = [cost |-> G.maintenance_cost, greedy |-> greedyRes]
  /\ pc' = "load"
  /\ G' = NoGraph
  /\ k' = 0
  /\ ipRes' = [kk \in 0..MaxK |-> NoResult]
  /\ ipStatus' = [kk \in 0..MaxK |-> "NONE"]
  /\ ipLast' = NoCall
  /\ greedyRes' = [kk \in 0..MaxK |-> NoGreedy]
  /\ naiveRes' = [kk \in 0..MaxK |-> NoNaive]
  /\ maintRes' = NoMaint
  /\ maintStatus' = "NONE"
  /\ ResetGreedyLocals
  /\ UNCHANGED <<lines, raw, rng>>

Next ==
  \/ LoadGraph
  \/ SolveSentinelIP
  \/ GreedyRound
  \/ GreedyReturn
  \/ SolveSentinelNaive
  \/ SolveMaintenanceIP

\* one run of the pipeline, every solve proving optimality
Spec == Init /\ [][Next]_vars

NextRerun == Next \/ Rerun

\* repeated runs in one process
SpecRerun == Init /\ [][NextRerun]_vars

NextTimeLimit == Next \/ SolveSentinelIPTimeLimit \/ SolveMaintenanceNotOptimal

\* one run in which a solve may stop without proving optimality
SpecTimeLimit == Init /\ [][NextTimeLimit]_vars

NextMalformed == Next \/ LoadGraphRaises

\* one run on a data file that may hold malformed lines
SpecMalformed == InitMalformed /\ [][NextMalformed]_vars

\* ================================================================= claims
BothDone(kk) == ipRes[kk].done /\ greedyRes[kk].done
IdsOf(rawSeq) == UNION {{rawSeq[i].u, rawSeq[i].v} : i \in 1..Len(rawSeq)}

C2_GreedyApproximation ==
  \A kk \in 0..MaxK :
     BothDone(kk) => 1000 * greedyRes[kk].coverage >= 632 * ipRes[kk].coverage

\* C3: the selection returned by solve_maintenance_ip for budget T consists of
\* eligible candidates of total maintenance_cost <= T, its value is the
\* maximum of the total value over all subsets of the eligible candidates of
\* total cost <= T, so no superset within budget has a higher value.
C3_KnapsackOptimal ==
  maintRes.done =>
    LET ids == {r.id : r \in maintRes.selected}
        elig == {n \in SeqToSet(G.nodes) : Eligible(G, n, MIN_STALENESS)}
        W(S) == SumOver([n \in S |-> NodeAttr(G, "maintenance_cost", n, 0)], S)
        V(S) == SumOver([n \in S |-> CandidateRecord(G, n).value], S)
    IN /\ ids \subseteq elig
       /\ Cardinality(ids) = Cardinality(maintRes.selected)
       /\ W(ids) <= maintRes.budget
       /\ maintRes.value = V(ids)
       /\ \A S \in SUBSET elig : W(S) <= maintRes.budget => V(S) <= maintRes.value

\* the budget admits some eligible candidates but not all of them
C3_Witness ==
  /\ maintRes.done
  /\ maintRes.selected # {}
  /\ \E n \in SeqToSet(G.nodes) :
        Eligible(G, n, MIN_STALENESS) /\ n \notin {r.id : r \in maintRes.selected}

C5_GainSubmodular ==
  pc # "load" =>
    LET cands == SeqToSet(Candidates(G))
    IN \A c \in cands :
          \A S \in SUBSET (cands \ {c}) :
             \A A \in SUBSET S :
             MarginalGain(G, c, CoveredBy(G, S)) <= MarginalGain(G, c, CoveredBy(G, A))

\* C6: for every loaded graph and every budget K, the coverage returned by
\* solve_sentinel_ip is at least the coverage returned by
\* solve_sentinel_naive, which is at least 0.
C6_IPDominatesNaive ==
  \A kk \in 0..MaxK :
     (ipRes[kk].done /\ naiveRes[kk].done) =>
        /\ ipRes[kk].coverage >= naiveRes[kk].coverage
        /\ naiveRes[kk].coverage >= 0

\* index of the last raw record with source u and target v, 0 when none: the
\* rating and time of that record are the directional rating and timestamp
LastIndex(rawSeq, u, v) ==
  LET idx == {i \in 1..Len(rawSeq) : rawSeq[i].u = u /\ rawSeq[i].v = v}
  IN IF idx = {} THEN 0 ELSE CHOOSE i \in idx : \A j \in idx : j <= i

\* C7: every unordered pair {u, v} touched by a raw record gets exactly one
\* undirected edge, whose weight is the average of the two directional ratings
\* when both directions occur and the single rating otherwise, and whose
\* timestamp is the maximum of the directional timestamps; a pair without
\* record gets no edge.  (weight2 is twice the weight.)
C7_EdgeCollapse ==
  pc # "load" =>
    /\ \A e \in DOMAIN G.edges : e[1] <= e[2]
    /\ \A u \in IdsOf(raw), v \in IdsOf(raw) :
         u <= v =>
           LET iUV == LastIndex(raw, u, v)
               iVU == LastIndex(raw, v, u)
           IN IF iUV = 0 /\ iVU = 0 THEN <<u, v>> \notin DOMAIN G.edges
              ELSE /\ <<u, v>> \in DOMAIN G.edges
                   /\ G.edges[<<u, v>>].weight2 =
                        IF iUV > 0 /\ iVU > 0 THEN raw[iUV].rating + raw[iVU].rating
                        ELSE IF iUV > 0 THEN 2 * raw[iUV].rating
                        ELSE 2 * raw[iVU].rating
                   /\ G.edges[<<u, v>>].timestamp =
                        IF iUV > 0 /\ iVU > 0
                        THEN Max2(raw[iUV].timestamp, raw[iVU].timestamp)
                        ELSE IF iUV > 0 THEN raw[iUV].timestamp
                        ELSE raw[iVU].timestamp

\* a loaded pair rated in both directions, with different ratings and times
C7_Witness ==
  /\ pc # "load"
  /\ \E u \in IdsOf(raw), v \in IdsOf(raw) :
        /\ u < v
        /\ LastIndex(raw, u, v) > 0 /\ LastIndex(raw, v, u) > 0
        /\ raw[LastIndex(raw, u, v)].rating # raw[LastIndex(raw, v, u)].rating
        /\ raw[LastIndex(raw, u, v)].timestamp # raw[LastIndex(raw, v, u)].timestamp
        /\ <<u, v>> \in DOMAIN G.edges

\* C8: with K = 0 the three sentinel solvers return an empty selection and
\* coverage 0; with T = 0 and all maintenance costs positive
\* solve_maintenance_ip returns an empty selection and value 0.
C8_ZeroBudget ==
  /\ ipRes[0].done => ipRes[0].coverage = 0
  /\ ipLast.k = 0 => (ipLast.selected = {} /\ ipLast.coverage = 0)
  /\ greedyRes[0].done => (greedyRes[0].selected = {} /\ greedyRes[0].coverage = 0)
  /\ naiveRes[0].done => (naiveRes[0].selected = <<>> /\ naiveRes[0].coverage = 0)
  /\ (/\ maintRes.done
      /\ maintRes.budget = 0
      /\ \A n \in SeqToSet(G.nodes) : NodeAttr(G, "maintenance_cost", n, 0) > 0)
       => (maintRes.selected = {} /\ maintRes.value = 0)

\* all four solvers ran with a zero budget on a graph that has sentinel
\* candidates and eligible maintenance candidates
C8_Witness ==
  /\ pc = "done"
  /\ maintRes.budget = 0
  /\ ipRes[0].done /\ greedyRes[0].done /\ naiveRes[0].done
  /\ Candidates(G) # <<>>
  /\ \E n \in SeqToSet(G.nodes) : Eligible(G, n, MIN_STALENESS)

\* C9: a second run of load_graph and solve_sentinel_greedy in the same
\* process on the same raw input gives every node the maintenance_cost of the
\* previous run and makes the same greedy picks, in the same rounds, for
\* every budget.
C9_Deterministic ==
  run > 1 =>
    /\ pc # "load" => G.maintenance_cost = first.cost
    /\ \A kk \in 0..MaxK : greedyRes[kk].done => greedyRes[kk] = first.greedy[kk]

\* a second run whose first greedy round had two candidates tied on the best gain
C9_Witness ==
  /\ run > 1
  /\ pc = "done"
  /\ Len(G.nodes) > 1
  /\ greedyRes[1].order # <<>>
  /\ \E c1 \in SeqToSet(Candidates(G)), c2 \in SeqToSet(Candidates(G)) :
        /\ c1 # c2
        /\ MarginalGain(G, c1, {}) = BestCandidate(G, {}, {})[2]
        /\ MarginalGain(G, c2, {}) = BestCandidate(G, {}, {})[2]

\* C10: when an exact solver stops without proving optimality, what it
\* returns is marked as non-optimal, so that a caller can tell it apart from a
\* result with status OPTIMAL.  The returned tuples carry no status field, so
\* telling apart means: the tuple returned is not one the solver returns with
\* status OPTIMAL for the same graph and budget.
C10_NonOptimalIsMarked ==
  /\ (ipLast.k >= 0 /\ ipStatus[ipLast.k] # "OPTIMAL") =>
        [selected |-> ipLast.selected, coverage |-> ipLast.coverage]
           \notin {SentinelReturn(G, a) : a \in OptimalAssignments(G, ipLast.k)}
  /\ (maintRes.done /\ maintStatus # "OPTIMAL") =>
        LET cands == MaintenanceCandidates(G, MIN_STALENESS)
        IN [selected |-> maintRes.selected, value |-> maintRes.value]
              \notin {MaintenanceReturn(cands, xs) :
                        xs \in KnapsackOptimal(cands, maintRes.budget)}

\* C11: load_graph never fails on a malformed line: every line that is not a
\* well-formed record is skipped, and the graph returned is the graph built
\* from the well-formed lines alone.
C11_MalformedSkipped ==
  /\ pc # "raised"
  /\ pc # "load" => G = LoadGraphResult(raw, rng).graph

RECURSIVE GreedyRun(_, _, _, _, _)
\* solve_sentinel_greedy run from scratch: what it returns after at most n
\* more rounds from the given selection
GreedyRun(Gr, n, sel, ord, score) ==
  LET best == BestCandidate(Gr, sel, CoveredBy(Gr, sel))
  IN IF n > 0 /\ RoundSelects(best)
     THEN GreedyRun(Gr, n - 1, sel \cup {best[1]}, Append(ord, best[1]), score + best[2])
     ELSE [selected |-> sel, coverage |-> score, order |-> ord]

SelectorPositions == {"greedy", "naive", "ip", "maint"}

\* the selections the budget kk admits on graph Gr, and the highest objective
\* a selection x admits: each node with a neighbour in x counts when its
\* talent_score is positive
Selections(Gr, kk) ==
  {x \in SUBSET {n \in SeqToSet(Gr.nodes) : Degree(Gr, n) > 0} : Cardinality(x) <= kk}
BestObjective(Gr, x) ==
  LET covered == {j \in CoveredBy(Gr, x) : Gr.talent_score[j] > 0}
  IN SumOver(Gr.talent_score, covered)

\* C12: no step of a selector changes the graph (nodes, edges, node and edge
\* attributes), and what a selector returns is what it returns on that graph
\* when run on its own, whichever selectors ran before it.
C12_SelectorsReadOnly ==
  [][/\ pc \in SelectorPositions => G' = G
     /\ \A kk \in 0..MaxK :
          /\ (greedyRes'[kk].done /\ greedyRes'[kk] # greedyRes[kk]) =>
                greedyRes'[kk] = [done |-> TRUE] @@ GreedyRun(G', kk, {}, <<>>, 0)
          /\ (naiveRes'[kk].done /\ naiveRes'[kk] # naiveRes[kk]) =>
                naiveRes'[kk] = [done |-> TRUE] @@ NaiveReturn(G', kk)
     /\ (ipLast'.k >= 0 /\ ipLast' # ipLast) =>
           /\ ipLast'.selected \in Selections(G', ipLast'.k)
           /\ ipLast'.coverage = BestObjective(G', ipLast'.selected)
           /\ \A x \in Selections(G', ipLast'.k) :
                 BestObjective(G', x) <= ipLast'.coverage
     /\ (maintRes'.done /\ maintRes' # maintRes) =>
           LET cands == MaintenanceCandidates(G', MIN_STALENESS)
           IN [selected |-> maintRes'.selected, value |-> maintRes'.value]
                 \in {MaintenanceReturn(cands, xs) :
                        xs \in KnapsackOptimal(cands, maintRes'.budget)}]_vars

\* all four selectors have returned a non-empty selection on one graph
C12_Witness ==
  /\ pc = "done"
  /\ greedyRes[MaxK].selected # {}
  /\ naiveRes[MaxK].selected # <<>>
  /\ ipLast.selected # {}
  /\ maintRes.selected # {}

\* C13: the graph built by load_graph is simple and undirected: no edge joins
\* a node to itself, and two distinct nodes are joined by at most one edge.
C13_SimpleGraph ==
  pc # "load" =>
    /\ \A e \in DOMAIN G.edges : e[1] # e[2]
    /\ \A e1 \in DOMAIN G.edges, e2 \in DOMAIN G.edges :
          {e1[1], e1[2]} = {e2[1], e2[2]} => e1 = e2

\* place of the first appearance of node n in the records: the source of a
\* record appears before its target
FirstAppearance(rawSeq, n) ==
  LET places == {2 * i - 1 : i \in {j \in 1..Len(rawSeq) : rawSeq[j].u = n}}
                  \cup {2 * i : i \in {j \in 1..Len(rawSeq) : rawSeq[j].v = n}}
  IN CHOOSE p \in places : \A q \in places : p <= q

\* the selection of solve_sentinel_naive for budget kk consists of
\* min(kk, number of nodes of positive degree) distinct nodes of positive
\* degree, and every selected node comes before every other node of positive
\* degree in the order Before(s, c)
NaiveTopBy(kk, Before(_, _)) ==
  LET sel == naiveRes[kk].selected
      pos == {n \in SeqToSet(G.nodes) : Degree(G, n) > 0}
  IN /\ Len(sel) = (IF kk < Cardinality(pos) THEN kk ELSE Cardinality(pos))
     /\ Cardinality(SeqToSet(sel)) = Len(sel)
     /\ SeqToSet(sel) \subseteq pos
     /\ \A s \in SeqToSet(sel) : \A c \in pos \ SeqToSet(sel) : Before(s, c)

\* C14 as stated: solve_sentinel_naive returns the min(K, number of nodes
\* with degree > 0) nodes of highest degree, ties broken by ascending id.
C14_NaiveTiesById ==
  \A kk \in 0..MaxK :
     naiveRes[kk].done =>
        NaiveTopBy(kk, LAMBDA s, c :
           \/ Degree(G, s) > Degree(G, c)
           \/ (Degree(G, s) = Degree(G, c) /\ s < c))

\* C14 amended: solve_sentinel_naive returns the min(K, number of nodes with
\* degree > 0) nodes of highest degree, ties broken by the order in which the
\* nodes first appear in the input.
C14_NaiveTiesByFirstAppearance ==
  \A kk \in 0..MaxK :
     naiveRes[kk].done =>
        NaiveTopBy(kk, LAMBDA s, c :
           \/ Degree(G, s) > Degree(G, c)
           \/ (Degree(G, s) = Degree(G, c)
                 /\ FirstAppearance(raw, s) < FirstAppearance(raw, c)))

\* a selected node tied on degree with an unselected node of smaller id
C14_Witness ==
  \E kk \in 1..MaxK :
     /\ naiveRes[kk].done
     /\ \E s \in SeqToSet(naiveRes[kk].selected) :
           \E c \in SeqToSet(G.nodes) \ SeqToSet(naiveRes[kk].selected) :
              Degree(G, c) = Degree(G, s) /\ c < s

\* gain of candidate c over the current selection, from the graph alone
GainOver(c, sel) ==
  LET new == Neighbors(G, c) \ UNION {Neighbors(G, s) : s \in sel}
  IN SumOver([t \in new |-> G.talent_score[t]], new)

\* C15: a round of solve_sentinel_greedy adds one unselected candidate whose
\* marginal gain is maximal among the unselected candidates and strictly
\* positive; the loop ends before K rounds only when no unselected candidate
\* has a positive gain; it runs at most K rounds and returns at most K
\* distinct nodes.
C15_GreedyRound ==
  [][pc = "greedy" =>
       LET unselected == SeqToSet(Candidates(G)) \ selected_sentinels
       IN /\ (pc' = "greedy" /\ rounds' # rounds) =>
               /\ rounds' = rounds + 1 /\ rounds' <= k
               /\ \E c \in unselected :
                     /\ selected_sentinels' = selected_sentinels \cup {c}
                     /\ GainOver(c, selected_sentinels) > 0
                     /\ \A d \in unselected :
                           GainOver(d, selected_sentinels) <= GainOver(c, selected_sentinels)
          /\ pc' = "naive" =>
               /\ rounds = k \/ \A c \in unselected : GainOver(c, selected_sentinels) <= 0
               /\ rounds <= k
               /\ greedyRes'[k].selected = selected_sentinels
               /\ Cardinality(greedyRes'[k].selected) = rounds]_vars

\* greedy stopped after a first pick with budget and candidates left
C15_Witness ==
  \E kk \in 2..MaxK :
     /\ greedyRes[kk].done
     /\ Cardinality(greedyRes[kk].selected) = 1
     /\ SeqToSet(Candidates(G)) \ greedyRes[kk].selected # {}

\* the nodes with days_dormant > min_staleness, degree > 0 and talent_score > 0
DormantValuable ==
  {n \in SeqToSet(G.nodes) :
     /\ G.last_contacted[n] > MIN_STALENESS
     /\ Cardinality({e \in DOMAIN G.edges : e[1] = n \/ e[2] = n}) > 0
     /\ G.talent_score[n] > 0}

\* C16: the candidates of solve_maintenance_ip are exactly the nodes with
\* days_dormant > min_staleness, degree > 0 and talent_score > 0, each once;
\* every returned record is such a node and its weight is the node's
\* maintenance_cost.
C16_MaintenanceCandidates ==
  pc # "load" =>
    LET cands == MaintenanceCandidates(G, MIN_STALENESS)
    IN /\ {cands[i].id : i \in 1..Len(cands)} = DormantValuable
       /\ \A i \in 1..Len(cands), j \in 1..Len(cands) : cands[i].id = cands[j].id => i = j
       /\ maintRes.done =>
             \A r \in maintRes.selected :
                /\ r.id \in DormantValuable
                /\ r.days_dormant > MIN_STALENESS /\ r.degree > 0 /\ r.talent_score > 0
                /\ r.weight = G.maintenance_cost[r.id]

\* a returned selection on a graph where one node fails the filter on its
\* score only and another on its staleness only
C16_Witness ==
  /\ maintRes.done
  /\ maintRes.selected # {}
  /\ \E n \in SeqToSet(G.nodes) : G.last_contacted[n] > MIN_STALENESS /\ G.talent_score[n] <= 0
  /\ \E n \in SeqToSet(G.nodes) : G.last_contacted[n] <= MIN_STALENESS /\ G.talent_score[n] > 0

\* the timestamps of the records having node n as source or target
TimesTouching(n) ==
  {raw[i].timestamp : i \in {j \in 1..Len(raw) : raw[j].u = n \/ raw[j].v = n}}
LatestOf(T) == CHOOSE t \in T : \A t2 \in T : t2 <= t

\* C17: for every node, last_contacted = max(1, floor((M - m) / 86400)), M
\* the maximum timestamp of all raw records and m the maximum timestamp of
\* the records touching the node; every node is touched by a record (the
\* default 730 is never used) and last_contacted >= 1.
C17_DaysDormant ==
  pc # "load" =>
    \A n \in SeqToSet(G.nodes) :
       /\ TimesTouching(n) # {}
       /\ LET M == LatestOf({raw[i].timestamp : i \in 1..Len(raw)})
              m == LatestOf(TimesTouching(n))
              d == G.last_contacted[n]
          IN /\ d >= 1
             /\ IF M - m < SECONDS_PER_DAY THEN d = 1
                ELSE d * SECONDS_PER_DAY <= M - m /\ M - m < (d + 1) * SECONDS_PER_DAY

\* a graph with a node last touched at the latest time of the dataset and a
\* node last touched 40 days and more than half a day before it
C17_Witness ==
  /\ pc # "load"
  /\ \E n \in SeqToSet(G.nodes) :
        LatestOf(TimesTouching(n)) = LatestOf({raw[i].timestamp : i \in 1..Len(raw)})
  /\ \E n \in SeqToSet(G.nodes) : G.last_contacted[n] = 40

RECURSIVE RatingSum(_, _)
\* <<number, sum>> of the ratings of the records raw[1..i] whose target is n
RatingSum(n, i) ==
  IF i = 0 THEN <<0, 0>>
  ELSE LET prev == RatingSum(n, i - 1)
       IN IF raw[i].v = n THEN <<prev[1] + 1, prev[2] + raw[i].rating>> ELSE prev

\* C18: talent_score of a node is the mean rating over all raw records whose
\* target is the node, every record counted (repeated ordered pairs too), and
\* 0 when there is none.  (talent_score is stored multiplied by Scale.)
C18_TalentFromRaw ==
  pc # "load" =>
    \A n \in SeqToSet(G.nodes) :
       LET r == RatingSum(n, Len(raw))
       IN IF r[1] = 0 THEN G.talent_score[n] = 0
          ELSE G.talent_score[n] * r[1] = r[2] * Scale

\* a loaded graph in which an ordered pair was rated twice with different
\* ratings, and a node that is the target of no record
C18_Witness ==
  /\ pc # "load"
  /\ \E i \in 1..Len(raw), j \in 1..Len(raw) :
        /\ i < j /\ raw[i].u = raw[j].u /\ raw[i].v = raw[j].v
        /\ raw[i].rating # raw[j].rating
  /\ \E n \in SeqToSet(G.nodes) : \A i \in 1..Len(raw) : raw[i].v # n

\* the union of the neighbour sets of the nodes of sel, and the sum of
\* talent_score over it
NeighbourhoodOf(sel) ==
  {m \in SeqToSet(G.nodes) :
     \E s \in sel : <<s, m>> \in DOMAIN G.edges \/ <<m, s>> \in DOMAIN G.edges}
TalentOver(S) == SumOver([t \in S |-> G.talent_score[t]], S)

\* C19: after every round of solve_sentinel_greedy, covered_talent is the
\* union of the neighbour sets of the selected nodes and current_score is the
\* sum of talent_score over covered_talent; the coverage returned is the
\* coverage of the returned selection recomputed from scratch.
C19_GreedyLoopInvariant ==
  /\ pc = "greedy" =>
        /\ covered_talent = NeighbourhoodOf(selected_sentinels)
        /\ current_score = TalentOver(covered_talent)
  /\ \A kk \in 0..MaxK :
        greedyRes[kk].done =>
           greedyRes[kk].coverage = TalentOver(NeighbourhoodOf(greedyRes[kk].selected))

\* a round is done and an unselected node has a neighbour that is covered and
\* a neighbour that is not
C19_Witness ==
  /\ pc = "greedy"
  /\ rounds >= 1
  /\ \E c \in SeqToSet(G.nodes) \ selected_sentinels :
        /\ NeighbourhoodOf({c}) \cap covered_talent # {}
        /\ NeighbourhoodOf({c}) \ covered_talent # {}

\* C20: the coverage value returned by solve_sentinel_ip equals the sum of
\* talent_score over the union of the neighbour sets of the selected ids it
\* returns.
C20_IPCoverageOfSelection ==
  ipLast.k >= 0 => ipLast.coverage = TalentOver(NeighbourhoodOf(ipLast.selected))
====
